---------------------------- MODULE Spec2Model ----------------------------
(***************************************************************************)
(* Model of densenetimgcls/utils.py: the AverageMeter accumulator, the     *)
(* save_checkpoint / load_model pair working on one directory, and the     *)
(* evaluate loop.  Numbers are exact rationals <<numerator, denominator>>  *)
(* in lowest terms (Python 3 true division), files are entries of a small  *)
(* file system keyed by file name.                                         *)
(***************************************************************************)
EXTENDS Integers, Sequences, FiniteSets, TLC

VARIABLES
    meter,      \* an AverageMeter object: [val, avg, sum, count]
    hist,       \* the (val, n) arguments of the updates since the last reset
    fs,         \* the files of the checkpoint directory: file name -> content
    console,    \* what logger.info has printed
    pc,         \* position inside save_checkpoint ("idle" between calls)
    args,       \* arguments of the current (or last) save_checkpoint call
    entry_fs,   \* the directory as it was when that call started
    ret,        \* value returned by the last save_checkpoint call
    loaded,     \* result of the last load_model call
    calls,      \* the epoch metrics passed to save_checkpoint, in call order
    last_best,  \* state_dict of the most recent call with is_best = True
    e_pc,       \* position inside evaluate: "loop", "done" or "error"
    loader_len, \* len(loader)
    print_freq, \* argument of evaluate
    is_test,    \* argument of evaluate
    batch_idx,  \* index of the next batch the loader yields
    batch_time, \* AverageMeter of evaluate
    losses,     \* AverageMeter of evaluate
    error,      \* AverageMeter of evaluate
    target_list,
    pred_top1_list,
    e_ret,      \* the tuple evaluate returned
    seen        \* the batches the loader has yielded so far

meterVars == <<meter, hist>>

ckptVars == <<fs, pc, args, entry_fs, ret, loaded, calls, last_best>>

evalVars == <<e_pc, loader_len, print_freq, is_test, batch_idx, batch_time, losses,
              error, target_list, pred_top1_list, e_ret, seen>>

vars == <<meterVars, ckptVars, evalVars, console>>

(***************************************************************************)
(* Bounds of the model.                                                    *)
(***************************************************************************)
MaxUpdates == 3     \* updates between two resets of the meter
MaxVal == 2         \* meter values are k/2 for k in 0..MaxVal
MaxN == 2           \* weights n of an update are 1..MaxN
MaxCalls == 2       \* save_checkpoint calls in one run
MaxEpoch == 2       \* epochs are 1..MaxEpoch
MaxCounter == 2     \* state["counter"] is 0..MaxCounter
MaxPatience == 2    \* patience is 1..MaxPatience
MaxBatches == 2     \* len(loader) is 0..MaxBatches
MaxFreq == 2        \* print_freq is 1..MaxFreq

(***************************************************************************)
(* Exact arithmetic of Python numbers.                                     *)
(***************************************************************************)
Abs(x) == IF x < 0 THEN -x ELSE x

RECURSIVE GCD(_, _)
GCD(a, b) == IF b = 0 THEN a ELSE GCD(b, a % b)

\* the number n/d (d > 0) in lowest terms
Rat(n, d) ==
    LET g == GCD(Abs(n), d)
    IN  IF n >= 0 THEN <<n \div g, d \div g>> ELSE <<-((-n) \div g), d \div g>>

FromInt(n) == <<n, 1>>

Zero == FromInt(0)

RAdd(a, b) == Rat(a[1] * b[2] + b[1] * a[2], a[2] * b[2])

RMul(a, b) == Rat(a[1] * b[1], a[2] * b[2])

\* a / b for b # 0
RDiv(a, b) ==
    IF b[1] > 0 THEN Rat(a[1] * b[2], a[2] * b[1])
    ELSE Rat(-(a[1] * b[2]), a[2] * (-b[1]))

\* 'x:.<d>f': x as a decimal with d digits after the point, rounded half to
\* even; the result is the number of units of 10^-d (the digits of the text)
RECURSIVE Pow10(_)
Pow10(d) == IF d = 0 THEN 1 ELSE 10 * Pow10(d - 1)

format_f(x, d) ==
    LET n == Abs(x[1]) * Pow10(d)
        q == n \div x[2]
        r == n % x[2]
        up == (2 * r > x[2]) \/ (2 * r = x[2] /\ q % 2 = 1)
        m == IF up THEN q + 1 ELSE q
    IN  IF x[1] < 0 THEN -m ELSE m

(***************************************************************************)
(* class AverageMeter                                                      *)
(***************************************************************************)
reset == [val |-> Zero, avg |-> Zero, sum |-> Zero, count |-> 0]

\* a slip that forgets the weight n in the running sum
update_unweighted(m, val, n) ==
    LET s == RAdd(m.sum, val)
        c == m.count + n
    IN  [val |-> val, sum |-> s, count |-> c, avg |-> RDiv(s, FromInt(c))]

update(m, val, n) ==
    LET s == RAdd(m.sum, RMul(val, FromInt(n)))
        c == m.count + n
    IN  [val |-> val, sum |-> s, count |-> c, avg |-> RDiv(s, FromInt(c))]

Vals == {Rat(k, 2) : k \in 0..MaxVal}

MeterInit ==
    /\ meter = reset
    /\ hist = <<>>

meter_reset ==
    /\ meter' = reset
    /\ hist' = <<>>
    /\ UNCHANGED <<ckptVars, evalVars, console>>

meter_update ==
    /\ Len(hist) < MaxUpdates
    /\ \E val \in Vals, n \in 1..MaxN :
        /\ meter' = update(meter, val, n)
        /\ hist' = Append(hist, [val |-> val, n |-> n])
    /\ UNCHANGED <<ckptVars, evalVars, console>>

MeterNext == meter_reset \/ meter_update

(***************************************************************************)
(* The checkpoint directory.  A file that does not exist is not in the     *)
(* domain of fs.  log.txt holds the sequence of the texts written to it,   *)
(* best_model.pth the object torch.save serialized.                        *)
(***************************************************************************)
LogFile == "log.txt"

BestFile == "best_model.pth"

StateDicts == {"w1", "w2"}

\* a slip that opens the file with mode 'w'
truncate_write(f, name, text) == (name :> <<text>>) @@ f

\* open(name, 'a').write(text)
append_write(f, name, text) ==
    IF name \in DOMAIN f THEN [f EXCEPT ![name] = Append(@, text)]
    ELSE (name :> <<text>>) @@ f

\* torch.save(obj, name)
torch_save(f, name, obj) == (name :> obj) @@ f

ReadLog(f) == IF LogFile \in DOMAIN f THEN f[LogFile] ELSE <<>>

\* the state dictionary handed to save_checkpoint after epoch e
TrainingState(e, sd, c) ==
    [epoch |-> e,
     train_loss |-> Rat(1, 3 * e),
     train_error |-> Rat(1, 8 * e),
     valid_loss |-> Rat(2, 3 * e),
     valid_error |-> Rat(1, 16 * e),
     state_dict |-> sd,
     best_accuracy |-> Rat(16 * e - 1, 16 * e),
     counter |-> c]

MetricKeys == {"epoch", "train_loss", "train_error", "valid_loss", "valid_error"}

EpochMetrics(state) == [k \in MetricKeys |-> state[k]]

metrics_line(state) ==
    [text |-> "Epoch",
     epoch |-> state.epoch,
     train_loss |-> format_f(state.train_loss, 6),
     train_error |-> format_f(state.train_error, 6),
     valid_loss |-> format_f(state.valid_loss, 5),
     valid_error |-> format_f(state.valid_error, 5)]

best_message(state, path) ==
    [text |-> "Get better top1 accuracy",
     accuracy |-> format_f(state.best_accuracy, 4),
     path |-> path]

EarlyStopped == [text |-> "early stopped."]

\* a slip that stops one epoch late
early_stop_strict(state, patience) == state.counter > patience

early_stop(state, patience) == state.counter >= patience

NoArgs == [state |-> TrainingState(1, "w1", 0), is_best |-> FALSE, patience |-> 1]

CkptInit ==
    /\ fs \in {<<>>, BestFile :> "w0"}
    /\ pc = "idle"
    /\ args = NoArgs
    /\ entry_fs = fs
    /\ ret = FALSE
    /\ loaded = "none"
    /\ calls = <<>>
    /\ last_best = "none"

\* entry of save_checkpoint and lines 41-49: append the epoch metrics
save_checkpoint_metrics ==
    /\ pc = "idle"
    /\ Len(calls) < MaxCalls
    /\ \E e \in 1..MaxEpoch, sd \in StateDicts, c \in 0..MaxCounter,
          is_best \in BOOLEAN, patience \in 1..MaxPatience :
        LET state == TrainingState(e, sd, c) IN
        /\ args' = [state |-> state, is_best |-> is_best, patience |-> patience]
        /\ entry_fs' = fs
        /\ calls' = Append(calls, EpochMetrics(state))
        /\ last_best' = IF is_best THEN sd ELSE last_best
        /\ fs' = append_write(fs, LogFile, metrics_line(state))
    /\ pc' = "is_best"
    /\ UNCHANGED <<console, ret, loaded>>
    /\ UNCHANGED <<meterVars, evalVars>>

\* lines 50-52: is_best holds, save the weights
save_checkpoint_weights ==
    /\ pc = "is_best"
    /\ args.is_best
    /\ fs' = torch_save(fs, BestFile, args.state.state_dict)
    /\ pc' = "message"
    /\ UNCHANGED <<console, args, entry_fs, ret, loaded, calls, last_best>>
    /\ UNCHANGED <<meterVars, evalVars>>

\* lines 53-56: log the message and append it to log.txt
save_checkpoint_message ==
    /\ pc = "message"
    /\ console' = Append(console, best_message(args.state, BestFile))
    /\ fs' = append_write(fs, LogFile, best_message(args.state, BestFile))
    /\ pc' = "early_stop"
    /\ UNCHANGED <<args, entry_fs, ret, loaded, calls, last_best>>
    /\ UNCHANGED <<meterVars, evalVars>>

\* a slip that saves the weights of every epoch
save_checkpoint_always_saves ==
    /\ pc = "is_best"
    /\ ~args.is_best
    /\ fs' = torch_save(fs, BestFile, args.state.state_dict)
    /\ pc' = "early_stop"
    /\ UNCHANGED <<console, args, entry_fs, ret, loaded, calls, last_best>>
    /\ UNCHANGED <<meterVars, evalVars>>

\* line 50, is_best does not hold
save_checkpoint_not_best ==
    /\ pc = "is_best"
    /\ ~args.is_best
    /\ pc' = "early_stop"
    /\ UNCHANGED <<fs, console, args, entry_fs, ret, loaded, calls, last_best>>
    /\ UNCHANGED <<meterVars, evalVars>>

\* a slip that reports the early stop on the console only
save_checkpoint_return_silent ==
    /\ pc = "early_stop"
    /\ IF early_stop(args.state, args.patience)
       THEN console' = Append(console, EarlyStopped)
       ELSE UNCHANGED console
    /\ ret' = early_stop(args.state, args.patience)
    /\ pc' = "idle"
    /\ UNCHANGED <<fs, args, entry_fs, loaded, calls, last_best>>
    /\ UNCHANGED <<meterVars, evalVars>>

\* lines 58-63: the early-stop signal, and the return
save_checkpoint_return ==
    /\ pc = "early_stop"
    /\ IF early_stop(args.state, args.patience)
       THEN /\ console' = Append(console, EarlyStopped)
            /\ fs' = append_write(fs, LogFile, EarlyStopped)
       ELSE UNCHANGED <<fs, console>>
    /\ ret' = early_stop(args.state, args.patience)
    /\ pc' = "idle"
    /\ UNCHANGED <<args, entry_fs, loaded, calls, last_best>>
    /\ UNCHANGED <<meterVars, evalVars>>

\* a slip that reads the per-epoch checkpoint name instead of best_model.pth
load_model_other_file ==
    /\ pc = "idle"
    /\ loaded' = IF "model.pth" \in DOMAIN fs THEN fs["model.pth"] ELSE "FileNotFoundError"
    /\ UNCHANGED <<fs, console, pc, args, entry_fs, ret, calls, last_best>>
    /\ UNCHANGED <<meterVars, evalVars>>

\* lines 91-92 of load_model: the weights read from model_path/best_model.pth
load_model ==
    /\ pc = "idle"
    /\ loaded' = IF BestFile \in DOMAIN fs THEN fs[BestFile] ELSE "FileNotFoundError"
    /\ UNCHANGED <<fs, console, pc, args, entry_fs, ret, calls, last_best>>
    /\ UNCHANGED <<meterVars, evalVars>>

CkptNext ==
    \/ save_checkpoint_metrics
    \/ save_checkpoint_weights
    \/ save_checkpoint_message
    \/ save_checkpoint_not_best
    \/ save_checkpoint_return
    \/ load_model

(***************************************************************************)
(* evaluate(model, loader, print_freq, is_test).  A batch the loader       *)
(* yields is [samples, loss]: samples is the sequence of <<target, pred>>  *)
(* pairs, pred being the class output.topk(1) selects for the sample, and  *)
(* loss is the value cross_entropy(output, target) returns for the batch.  *)
(***************************************************************************)
Classes == {0, 1}

BatchSizes == {0, 1, 2}

Losses == {Rat(1, 2), FromInt(3)}

Batches ==
    (UNION {[1..n -> Classes \X Classes] : n \in BatchSizes}) \X Losses

\* time.time() - end: a batch of n samples takes n ticks, an empty one 1
Elapsed(samples) == FromInt(IF Len(samples) = 0 THEN 1 ELSE Len(samples))

targets(samples) == [i \in 1..Len(samples) |-> samples[i][1]]

\* a slip that keeps only the first prediction of a batch
preds_first_only(samples) == IF samples = <<>> THEN <<>> ELSE <<samples[1][2]>>

\* [i[0] for i in pred.tolist()]
preds(samples) == [i \in 1..Len(samples) |-> samples[i][2]]

\* torch.ne(pred.squeeze(), target.cpu()).float().sum().item()
ne_sum(samples) == Cardinality({i \in 1..Len(samples) : samples[i][2] # samples[i][1]})

progress_line(idx, bt, ls, er) ==
    [label |-> IF is_test THEN "Test" ELSE "Valid",
     iter |-> idx + 1,
     total |-> loader_len,
     time_val |-> format_f(bt.val, 3), time_avg |-> format_f(bt.avg, 3),
     loss_val |-> format_f(ls.val, 4), loss_avg |-> format_f(ls.avg, 4),
     error_val |-> format_f(er.val, 4), error_avg |-> format_f(er.avg, 4)]

\* a slip that tests the 1-based iteration number
prints_one_based(idx) == (idx + 1) % print_freq = 0

\* line 129
prints(idx) == idx % print_freq = 0

\* a slip that leaves the weight of the update at its default n = 1
error_update_default_n(m, samples) ==
    update(m, RDiv(FromInt(ne_sum(samples)), FromInt(Len(samples))), 1)

\* line 123
error_update(m, samples) ==
    update(m, RDiv(FromInt(ne_sum(samples)), FromInt(Len(samples))), Len(samples))

\* line 124
losses_update(m, loss, samples) ==
    update(m, RDiv(loss, FromInt(Len(samples))), Len(samples))

\* evaluate has not returned: no number and no list is the value -1
NoReturn ==
    [batch_time |-> FromInt(-1), loss |-> FromInt(-1), error |-> FromInt(-1),
     targets |-> <<-1>>, preds |-> <<-1>>]

\* lines 101-108
EvalInit ==
    /\ e_pc = "loop"
    /\ loader_len \in 0..MaxBatches
    /\ print_freq \in 1..MaxFreq
    /\ is_test \in BOOLEAN
    /\ batch_idx = 0
    /\ batch_time = reset
    /\ losses = reset
    /\ error = reset
    /\ target_list = <<>>
    /\ pred_top1_list = <<>>
    /\ e_ret = NoReturn
    /\ seen = <<>>

\* lines 110-137: one iteration of the loop
evaluate_batch ==
    /\ e_pc = "loop"
    /\ batch_idx < loader_len
    /\ \E b \in Batches :
        LET samples == b[1]
            loss == b[2]
        IN
        /\ seen' = Append(seen, [samples |-> samples, loss |-> loss])
        /\ target_list' = target_list \o targets(samples)
        /\ pred_top1_list' = pred_top1_list \o preds(samples)
        /\ IF Len(samples) = 0
           THEN \* line 123 divides by batch_size: ZeroDivisionError
                /\ e_pc' = "error"
                /\ UNCHANGED <<batch_idx, batch_time, losses, error, console>>
           ELSE /\ error' = error_update(error, samples)
                /\ losses' = losses_update(losses, loss, samples)
                /\ batch_time' = update(batch_time, Elapsed(samples), 1)
                /\ console' =
                     IF prints(batch_idx)
                     THEN Append(console,
                                 progress_line(batch_idx, batch_time', losses', error'))
                     ELSE console
                /\ batch_idx' = batch_idx + 1
                /\ e_pc' = "loop"
    /\ UNCHANGED <<loader_len, print_freq, is_test, e_ret>>
    /\ UNCHANGED <<meterVars, ckptVars>>

\* line 139, once the loader is exhausted
evaluate_return ==
    /\ e_pc = "loop"
    /\ batch_idx = loader_len
    /\ e_pc' = "done"
    /\ e_ret' = [batch_time |-> batch_time.avg, loss |-> losses.avg,
                 error |-> error.avg, targets |-> target_list,
                 preds |-> pred_top1_list]
    /\ UNCHANGED <<loader_len, print_freq, is_test, batch_idx, batch_time, losses,
                   error, target_list, pred_top1_list, seen, console>>
    /\ UNCHANGED <<meterVars, ckptVars>>

EvalNext == evaluate_batch \/ evaluate_return

\* the parts of the state a specification does not exercise stay as constructed
CkptIdle == CkptInit /\ fs = <<>>

EvalIdle == EvalInit /\ loader_len = 0 /\ print_freq = 1 /\ is_test = FALSE

InitMeter == MeterInit /\ CkptIdle /\ EvalIdle /\ console = <<>>

InitCkpt == CkptInit /\ MeterInit /\ EvalIdle /\ console = <<>>

InitEval == EvalInit /\ MeterInit /\ CkptIdle /\ console = <<>>

SpecMeter == InitMeter /\ [][MeterNext]_vars

SpecCkpt == InitCkpt /\ [][CkptNext]_vars

SpecEval == InitEval /\ [][EvalNext]_vars

(***************************************************************************)
(* Reference sums over the update history.                                 *)
(***************************************************************************)
RECURSIVE SumN(_)
SumN(h) == IF h = <<>> THEN 0 ELSE h[1].n + SumN(Tail(h))

RECURSIVE SumValN(_)
SumValN(h) ==
    IF h = <<>> THEN Zero
    ELSE RAdd(RMul(h[1].val, FromInt(h[1].n)), SumValN(Tail(h)))

(***************************************************************************)
(* C1: after any sequence of reset() and update(val, n) calls with n >= 1, *)
(* whenever count > 0: count is the sum of the n arguments since the last  *)
(* reset, sum is the sum of val*n over those updates, avg = sum / count,   *)
(* and val is the val argument of the most recent update.                  *)
(***************************************************************************)
C1_RunningMean ==
    meter.count > 0 =>
        /\ hist # <<>>
        /\ meter.count = SumN(hist)
        /\ meter.sum = SumValN(hist)
        /\ meter.avg = RDiv(SumValN(hist), FromInt(SumN(hist)))
        /\ meter.val = hist[Len(hist)].val

\* two updates with different values and weights, the average a proper fraction
C1_Witness ==
    /\ Len(hist) = 2
    /\ hist[1].val # hist[2].val
    /\ hist[1].n # hist[2].n
    /\ meter.count = 3
    /\ meter.avg[2] = 3

(***************************************************************************)
(* What a save_checkpoint call has done to the directory.                  *)
(***************************************************************************)
Log == ReadLog(fs)

EntryLog == ReadLog(entry_fs)

\* the lines the current (or last) call has appended so far
Appended == SubSeq(Log, Len(EntryLog) + 1, Len(Log))

Texts(lines) == [i \in 1..Len(lines) |-> lines[i].text]

IsPrefix(a, b) == Len(a) <= Len(b) /\ SubSeq(b, 1, Len(a)) = a

IsMetricsLine(l) == l.text = "Epoch"

\* the content of best_model.pth: one object, or nothing when the file is absent
BestContent(f) == IF BestFile \in DOMAIN f THEN <<f[BestFile]>> ELSE <<>>

Returned == pc = "idle" /\ calls # <<>>

(***************************************************************************)
(* C2: save_checkpoint returns True if and only if state["counter"] >=     *)
(* patience, whatever is_best is.                                          *)
(***************************************************************************)
C2_EarlyStopSignal ==
    Returned => (ret <=> args.state.counter >= args.patience)

\* a call with is_best = True that signals the stop exactly at the threshold
C2_Witness ==
    /\ Returned
    /\ args.is_best
    /\ args.state.counter = args.patience
    /\ ret

(***************************************************************************)
(* C3: the weights file is written if and only if is_best: a call with     *)
(* is_best = False leaves best_model.pth (present or absent) as it was,    *)
(* and after a call with is_best = True it holds that call's state_dict.   *)
(***************************************************************************)
C3_BestWeights ==
    calls # <<>> =>
        /\ ~args.is_best => BestContent(fs) = BestContent(entry_fs)
        /\ (args.is_best /\ pc = "idle") => BestContent(fs) = <<args.state.state_dict>>

\* a call without is_best, carrying other weights, after a call that saved
C3_Witness ==
    /\ Returned
    /\ Len(calls) = 2
    /\ ~args.is_best
    /\ args.state.state_dict = "w1"
    /\ BestContent(fs) = <<"w2">>

(***************************************************************************)
(* C4: log.txt is append-only: the content before a call is a prefix of    *)
(* the content after it, every call appends exactly one epoch-metrics      *)
(* line, and after k calls the log holds exactly k metrics lines, those of *)
(* the calls in call order.                                                *)
(***************************************************************************)
C4_AppendOnlyLog ==
    LET lines == SelectSeq(Log, IsMetricsLine) IN
    /\ IsPrefix(EntryLog, Log)
    /\ Len(SelectSeq(Appended, IsMetricsLine)) = IF calls = <<>> THEN 0 ELSE 1
    /\ Len(lines) = Len(calls)
    /\ \A i \in 1..Len(lines) :
        /\ lines[i].epoch = calls[i].epoch
        /\ lines[i].train_loss = format_f(calls[i].train_loss, 6)
        /\ lines[i].train_error = format_f(calls[i].train_error, 6)
        /\ lines[i].valid_loss = format_f(calls[i].valid_loss, 5)
        /\ lines[i].valid_error = format_f(calls[i].valid_error, 5)

\* two calls, epoch 2 before epoch 1, with other lines between the metrics
C4_Witness ==
    /\ Returned
    /\ Len(calls) = 2
    /\ calls[1].epoch = 2
    /\ calls[2].epoch = 1
    /\ Len(Log) = 6

(***************************************************************************)
(* C5: once a call with is_best = True has been made, load_model on the    *)
(* same directory loads the state_dict of the most recent such call; calls *)
(* with is_best = False in between do not change what it loads.            *)
(***************************************************************************)
C5_RoundTrip ==
    [][load_model => (last_best # "none" => loaded' = last_best)]_vars

\* the weights of the first call are loaded although a later call without
\* is_best carried other weights, and other weights were there at the start
C5_Witness ==
    /\ Returned
    /\ Len(calls) = 2
    /\ ~args.is_best
    /\ last_best = "w2"
    /\ args.state.state_dict = "w1"
    /\ loaded = "w2"
    /\ Len(Log) >= 3

(***************************************************************************)
(* C9: within one call the log entries are appended in a fixed order: the  *)
(* epoch-metrics line, then (only if is_best) the 'Get better top1         *)
(* accuracy' message, written after the weights have been saved, then      *)
(* (only if counter >= patience) the 'early stopped.' line, which is in    *)
(* the log if and only if the call returns True.                           *)
(***************************************************************************)
C9_Expected ==
    <<"Epoch">>
    \o (IF args.is_best THEN <<"Get better top1 accuracy">> ELSE <<>>)
    \o (IF args.state.counter >= args.patience THEN <<"early stopped.">> ELSE <<>>)

C9_LogOrder ==
    calls # <<>> =>
        /\ IsPrefix(Texts(Appended), C9_Expected)
        /\ pc = "idle" => Texts(Appended) = C9_Expected
        /\ pc = "idle" =>
             (ret <=> \E i \in 1..Len(Appended) : Appended[i].text = "early stopped.")
        /\ (\E i \in 1..Len(Appended) : Appended[i].text = "Get better top1 accuracy")
             => BestContent(fs) = <<args.state.state_dict>>

\* a call that appended all three lines
C9_Witness ==
    /\ Returned
    /\ Len(Appended) = 3
    /\ ret
    /\ BestContent(entry_fs) # BestContent(fs)

(***************************************************************************)
(* What evaluate has seen.                                                 *)
(***************************************************************************)
RECURSIVE Flatten(_)
Flatten(bs) == IF bs = <<>> THEN <<>> ELSE bs[1].samples \o Flatten(Tail(bs))

\* all <<target, pred>> pairs seen, in loader order
Samples == Flatten(seen)

Wrong == Cardinality({i \in 1..Len(Samples) : Samples[i][1] # Samples[i][2]})

RECURSIVE WeightedLoss(_)
WeightedLoss(bs) ==
    IF bs = <<>> THEN Zero
    ELSE RAdd(RMul(bs[1].loss, FromInt(Len(bs[1].samples))), WeightedLoss(Tail(bs)))

CeilDiv(a, b) == (a + b - 1) \div b

(***************************************************************************)
(* C6: the top-1 error evaluate returns is the number of samples whose     *)
(* predicted class differs from the target divided by the number of        *)
(* samples, for every non-empty loader and every split into batches.       *)
(***************************************************************************)
C6_Top1Error ==
    (e_pc = "done" /\ Samples # <<>>) =>
        e_ret.error = Rat(Wrong, Len(Samples))

\* a batch of two and a smaller last batch, two of three samples wrong
C6_Witness ==
    /\ e_pc = "done"
    /\ Len(seen) = 2
    /\ Len(seen[1].samples) = 2
    /\ Len(seen[2].samples) = 1
    /\ Wrong = 2
    /\ e_ret.error = Rat(2, 3)

(***************************************************************************)
(* C7: the loss evaluate returns is the sum over the batches of (batch     *)
(* cross-entropy loss * batch size) divided by the number of samples.      *)
(***************************************************************************)
C7_WeightedLoss ==
    (e_pc = "done" /\ Samples # <<>>) =>
        e_ret.loss = RDiv(WeightedLoss(seen), FromInt(Len(Samples)))

(***************************************************************************)
(* C8: a progress line is logged for batch index i exactly when            *)
(* i mod print_freq = 0, after the batch's loss, error and time have been  *)
(* accumulated; N batches give ceil(N / print_freq) lines, the first batch *)
(* is always logged, and a line reports iteration i + 1.                   *)
(***************************************************************************)
C8_ProgressLines ==
    /\ {console[k].iter : k \in 1..Len(console)}
         = {i + 1 : i \in {j \in 0..(batch_idx - 1) : j % print_freq = 0}}
    /\ \A k \in 1..Len(console) : console[k].iter = (k - 1) * print_freq + 1
    /\ Len(console) = CeilDiv(batch_idx, print_freq)
    /\ e_pc = "done" => Len(console) = CeilDiv(loader_len, print_freq)
    /\ batch_idx > 0 => console[1].iter = 1
    /\ (batch_idx > 0 /\ (batch_idx - 1) % print_freq = 0) =>
         LET l == console[Len(console)] IN
         /\ batch_time.count = batch_idx
         /\ l.iter = batch_idx
         /\ l.time_val = format_f(batch_time.val, 3)
         /\ l.time_avg = format_f(batch_time.avg, 3)
         /\ l.loss_val = format_f(losses.val, 4)
         /\ l.loss_avg = format_f(losses.avg, 4)
         /\ l.error_val = format_f(error.val, 4)
         /\ l.error_avg = format_f(error.avg, 4)

\* two batches with print_freq 2: one line, for the first batch only
C8_Witness ==
    /\ e_pc = "done"
    /\ loader_len = 2
    /\ print_freq = 2
    /\ Len(console) = 1
    /\ console[1].iter = 1

=============================================================================
